---- MODULE Spec2Model ----
(***************************************************************************)
(* Model of server/model_cache.py: ModelMetadata, ModelCache (the bounded, *)
(* persisted catalogue) and ModelPool (the in-memory instance pool).       *)
(*                                                                         *)
(* self.models of ModelCache is an insertion-ordered dict; it is modelled  *)
(* as a sequence of entries in insertion order.  An entry is either a      *)
(* ModelMetadata object (isobj = TRUE, timestamps are datetimes            *)
(* <<"dt", t>>) or a plain dict reloaded from metadata.json (isobj =       *)
(* FALSE, timestamps are ISO strings <<"iso", t>>).                        *)
(***************************************************************************)
EXTENDS Integers, Sequences, FiniteSets, TLC

VARIABLES
    alive,       \* TRUE while the process that owns the cache and the pool runs
    now,         \* the wall clock read by datetime.now()
    max_models,  \* ModelCache.max_models
    models,      \* ModelCache.models, in insertion order
    pool,        \* ModelPool.models: name -> instance
    store,       \* <cache_dir>/metadata.json
    last,        \* the outcome of the last call
    faults,      \* failed or interrupted writes of the store so far
    known,       \* the names the catalogue of this process holds or has held
    hist,        \* the calls made since a fresh start, while they follow a scenario
    thr,         \* per thread: where it is in the call it makes, and how the last one ended
    cache_lock,  \* ModelCache.lock, an RLock: the owner and how often it entered
    pool_lock,   \* ModelPool.lock, an RLock
    seq,         \* catalogue and pool after the calls so far, run one after another
    _model_cache,  \* the module global _model_cache
    _model_pool,   \* the module global _model_pool
    built        \* the instances the accessors constructed and returned

\* the state of the threads of one process
tvars == <<thr, cache_lock, pool_lock, seq, _model_cache, _model_pool, built>>

vars == <<alive, now, max_models, models, pool, store, last, faults, known, hist,
          thr, cache_lock, pool_lock, seq, _model_cache, _model_pool, built>>

----------------------------------------------------------------------------
(* Bounds *)

MaxTime == 2
MaxUse == 1
MaxUseLRU == 3
MaxModels == 2
MaxFaults == 1
MaxCalls == 2
MaxCallsFair == 1

(* Inputs *)

Names == {"A", "B", "C"}
Handles == {"h1"}
NoName == ""
None == <<>>
NoneStr == "None"
DatetimeMin == 0

Paths == {"/models/A", "/models/B", "/models/C"}
StoreNames == {"A", "B"}
StorePaths == {"/models/A", "/models/B"}
LRUCapacities == {1, 2}
Threads == {"t1", "t2"}
NoThread == ""
MissingPath == "/models/missing"
UnreadablePath == "/models/locked"
DefaultMaxModels == 3

basename(path) ==
    CASE path = "/models/A" -> "A"
      [] path = "/models/B" -> "B"
      [] path = "/models/C" -> "C"
      [] path = "/models/locked" -> "locked"

getsize(path) ==
    CASE path = "/models/A" -> 10
      [] path = "/models/B" -> 20
      [] path = "/models/C" -> 30
      [] path = "/models/locked" -> 40

sha256(path) ==
    CASE path = "/models/A" -> "hashA"
      [] path = "/models/B" -> "hashB"
      [] path = "/models/C" -> "hashC"

----------------------------------------------------------------------------
(* ModelMetadata *)

datetime_now == <<"dt", now>>

isoformat(d) == <<"iso", d[2]>>

\* open(self.model_path, "rb") in _compute_hash succeeds: the file exists and
\* may be read (it is not a directory, and the process has the permission)
Readable(model_path) == model_path # UnreadablePath

_compute_hash(model_path, exists) ==
    IF ~exists THEN "" ELSE sha256(model_path)

ModelMetadata(model_path, model_name, exists) ==
    [ isobj        |-> TRUE,
      model_path   |-> model_path,
      model_name   |-> IF model_name # NoName THEN model_name ELSE basename(model_path),
      file_size    |-> IF exists THEN getsize(model_path) ELSE 0,
      file_hash    |-> _compute_hash(model_path, exists),
      loaded_at    |-> None,
      last_used_at |-> None,
      use_count    |-> 0,
      is_loaded    |-> FALSE ]

to_dict(m) ==
    [ isobj        |-> FALSE,
      model_name   |-> m.model_name,
      model_path   |-> m.model_path,
      file_size    |-> m.file_size,
      file_hash    |-> m.file_hash,
      loaded_at    |-> IF m.loaded_at # None THEN isoformat(m.loaded_at) ELSE None,
      last_used_at |-> IF m.last_used_at # None THEN isoformat(m.last_used_at) ELSE None,
      use_count    |-> m.use_count,
      is_loaded    |-> m.is_loaded ]

----------------------------------------------------------------------------
(* Helpers on the catalogue *)

NameSet(ms) == { ms[i].model_name : i \in 1..Len(ms) }

IndexOf(ms, n) == CHOOSE i \in 1..Len(ms) : ms[i].model_name = n

Entry(ms, n) == ms[IndexOf(ms, n)]

RemoveAt(ms, k) ==
    [ i \in 1..(Len(ms) - 1) |-> IF i < k THEN ms[i] ELSE ms[i + 1] ]

----------------------------------------------------------------------------
(* Persistence *)

AbsentStore == [kind |-> "absent", data |-> <<>>]
CorruptStore == [kind |-> "corrupt", data |-> <<>>]

\* the data dict built by _save_cache_metadata
SaveData(ms) ==
    [ i \in 1..Len(ms) |-> IF ms[i].isobj THEN to_dict(ms[i]) ELSE ms[i] ]

WriteOutcomes == {"ok", "open_failed", "dump_failed", "crash"}

\* _save_cache_metadata that writes only the ModelMetadata objects and so
\* drops the entries reloaded from the store
_save_objects_only(ms, wr) ==
    CASE wr = "ok"          -> [kind |-> "ok",
                                data |-> SelectSeq(SaveData(ms),
                                                   LAMBDA d : \E i \in 1..Len(ms) :
                                                       ms[i].isobj /\ ms[i].model_name = d.model_name)]
      [] wr = "open_failed" -> store
      [] wr = "dump_failed" -> CorruptStore
      [] wr = "crash"       -> CorruptStore

\* metadata.json after _save_cache_metadata ran on catalogue ms with outcome wr.
\* open(..., 'w') truncates the file before json.dump writes anything.
_save_cache_metadata(ms, wr) ==
    CASE wr = "ok"          -> [kind |-> "ok", data |-> SaveData(ms)]
      [] wr = "open_failed" -> store
      [] wr = "dump_failed" -> CorruptStore
      [] wr = "crash"       -> CorruptStore

\* _load_cache_metadata that starts the usage statistics of every entry afresh
_load_statistics_reset(st) ==
    IF st.kind = "ok"
    THEN [ i \in 1..Len(st.data) |->
             [ st.data[i] EXCEPT !.use_count = 0, !.last_used_at = None ] ]
    ELSE <<>>

\* self.models after _load_cache_metadata ran on a fresh ModelCache
_load_cache_metadata(st) ==
    IF st.kind = "ok" THEN st.data ELSE <<>>

----------------------------------------------------------------------------
(* Eviction *)

\* EvictKey with the pair the wrong way round: recency first, count second
EvictKeyRecencyFirst(m) ==
    << IF m.last_used_at # None THEN m.last_used_at[2] ELSE DatetimeMin,
       m.use_count >>

\* the key of the min() in _evict_least_used_model, for a ModelMetadata entry
EvictKey(m) ==
    << m.use_count,
       IF m.last_used_at # None THEN m.last_used_at[2] ELSE DatetimeMin >>

\* Python's tuple comparison
TupleLess(a, b) ==
    \/ a[1] < b[1]
    \/ a[1] = b[1] /\ a[2] < b[2]

\* a min() that returns the last of the minimal items in iteration order
MinIndexLast(ms) ==
    CHOOSE i \in 1..Len(ms) :
        /\ \A j \in 1..(i - 1) : ~TupleLess(EvictKey(ms[j]), EvictKey(ms[i]))
        /\ \A j \in (i + 1)..Len(ms) : TupleLess(EvictKey(ms[i]), EvictKey(ms[j]))

\* min() returns the first of the minimal items in iteration order
MinIndex(ms) ==
    CHOOSE i \in 1..Len(ms) :
        /\ \A j \in 1..(i - 1) : TupleLess(EvictKey(ms[i]), EvictKey(ms[j]))
        /\ \A j \in (i + 1)..Len(ms) : ~TupleLess(EvictKey(ms[j]), EvictKey(ms[i]))

\* outcome of _evict_least_used_model on catalogue ms: the key lambda reads
\* .use_count of every entry, which a reloaded dict entry does not have
_evict_least_used_model(ms) ==
    IF ms = <<>>
    THEN [raised |-> FALSE, models |-> ms, evicted |-> NoneStr]
    ELSE IF \E i \in 1..Len(ms) : ~ms[i].isobj
    THEN [raised |-> TRUE, models |-> ms, evicted |-> NoneStr]
    ELSE [raised |-> FALSE,
          models |-> RemoveAt(ms, MinIndex(ms)),
          evicted |-> ms[MinIndex(ms)].model_name]

----------------------------------------------------------------------------
(* Lookups *)

get_model_metadata(ms, model_name) ==
    IF model_name \notin NameSet(ms) THEN None
    ELSE IF Entry(ms, model_name).isobj THEN to_dict(Entry(ms, model_name))
    ELSE Entry(ms, model_name)

list_models(ms) ==
    [ i \in 1..Len(ms) |-> IF ms[i].isobj THEN to_dict(ms[i]) ELSE ms[i] ]

get_cache_stats(ms) ==
    LET objs == { i \in 1..Len(ms) : ms[i].isobj }
        sum[S \in SUBSET objs] ==
            IF S = {} THEN 0
            ELSE LET i == CHOOSE x \in S : TRUE
                 IN  ms[i].file_size + sum[S \ {i}]
    IN  [ total_models     |-> Len(ms),
          loaded_models    |-> Cardinality({ i \in objs : ms[i].is_loaded }),
          total_cache_size |-> sum[objs],
          max_models       |-> max_models ]

----------------------------------------------------------------------------
(* Scenario tracking *)

Off == << <<"off", "">> >>

Scenario ==
    << <<"register_model", "A">>, <<"register_model", "B">>,
       <<"get_model", "A">>, <<"get_model", "A">>, <<"get_model", "A">>,
       <<"get_model", "B">>, <<"register_model", "C">> >>

ScenarioPut ==
    << <<"register_model", "A">>, <<"register_model", "B">>,
       <<"set_model", "A">>, <<"set_model", "B">>,
       <<"get_model", "A">>, <<"get_model", "A">>, <<"get_model", "A">>,
       <<"get_model", "B">>, <<"register_model", "C">> >>

IsPrefix(s, t) ==
    /\ Len(s) <= Len(t)
    /\ \A i \in 1..Len(s) : s[i] = t[i]

Track(h, ev) ==
    IF h # Off /\ (IsPrefix(Append(h, ev), Scenario) \/ IsPrefix(Append(h, ev), ScenarioPut))
    THEN Append(h, ev)
    ELSE Off

----------------------------------------------------------------------------
(* State *)

EmptyPool == [n \in {} |-> "h1"]

\* the last call: the operation, how it ended, the value it returned, and the
\* name in its "Evicting model" log line
Call(op, arg, res, ret, evicted) ==
    [op |-> op, res |-> res, ret |-> ret, evicted |-> evicted]

\* a thread between two calls, with k calls still to make
Idle(k) == [pc |-> "idle", op |-> "", arg |-> "", res |-> "", left |-> k, val |-> None]

FreeLock == [owner |-> NoThread, count |-> 0]

\* before any thread called anything, each thread having k calls to make
ThreadsStart(k) ==
    /\ thr = [t \in Threads |-> Idle(k)]
    /\ cache_lock = FreeLock
    /\ pool_lock = FreeLock
    /\ _model_cache = None
    /\ _model_pool = None
    /\ built = [caches |-> 0, pools |-> 0, got_caches |-> {}, got_pools |-> {}]

\* the single-threaded specifications: no thread ever calls
NoThreads ==
    /\ ThreadsStart(0)
    /\ seq = [models |-> <<>>, pool |-> EmptyPool]

Init ==
    /\ alive = TRUE
    /\ now = 1
    /\ max_models \in 0..MaxModels
    /\ models = <<>>
    /\ pool = EmptyPool
    /\ store = AbsentStore
    /\ last = Call("__init__", "", "init", NoneStr, NoneStr)
    /\ faults = 0
    /\ known = {}
    /\ hist = <<>>
    /\ NoThreads

\* Commit without the try/except of _save_cache_metadata: a failed write reaches
\* the caller as an exception
Commit_write_error_escapes(ms, pl, wr, call, ev) ==
    /\ wr # "ok" => faults < MaxFaults
    /\ faults' = IF wr # "ok" THEN faults + 1 ELSE faults
    /\ store' = _save_cache_metadata(ms, wr)
    /\ UNCHANGED <<now, max_models>>
    /\ UNCHANGED tvars
    /\ IF wr = "crash"
       THEN /\ alive' = FALSE
            /\ models' = <<>>
            /\ pool' = EmptyPool
            /\ known' = {}
            /\ last' = [call EXCEPT !.res = "crash", !.ret = NoneStr]
            /\ hist' = Off
       ELSE /\ alive' = TRUE
            /\ models' = ms
            /\ pool' = pl
            /\ known' = known \cup NameSet(ms)
            /\ last' = IF wr = "ok" THEN call
                       ELSE [call EXCEPT !.res = "OSError", !.ret = NoneStr]
            /\ hist' = Track(hist, ev)

\* the catalogue became ms and the pool pl, and _save_cache_metadata ran with
\* outcome wr; a crash in the middle of the write ends the process
Commit(ms, pl, wr, call, ev) ==
    /\ wr # "ok" => faults < MaxFaults
    /\ faults' = IF wr # "ok" THEN faults + 1 ELSE faults
    /\ store' = _save_cache_metadata(ms, wr)
    /\ UNCHANGED <<now, max_models>>
    /\ UNCHANGED tvars
    /\ IF wr = "crash"
       THEN /\ alive' = FALSE
            /\ models' = <<>>
            /\ pool' = EmptyPool
            /\ known' = {}
            /\ last' = [call EXCEPT !.res = "crash", !.ret = NoneStr]
            /\ hist' = Off
       ELSE /\ alive' = TRUE
            /\ models' = ms
            /\ pool' = pl
            /\ known' = known \cup NameSet(ms)
            /\ last' = call
            /\ hist' = Track(hist, ev)

\* the call returned or raised without writing the store
NoWrite(ms, pl, call, ev) ==
    /\ models' = ms
    /\ pool' = pl
    /\ known' = known \cup NameSet(ms)
    /\ last' = call
    /\ hist' = Track(hist, ev)
    /\ UNCHANGED <<alive, now, max_models, store, faults>>
    /\ UNCHANGED tvars

----------------------------------------------------------------------------
(* ModelCache *)

\* __init__ whose load lets the parse error of an unreadable store escape
ModelCache_init_unguarded(m) ==
    /\ max_models' = m
    /\ pool' = EmptyPool
    /\ hist' = Off
    /\ UNCHANGED <<now, store, faults>>
    /\ UNCHANGED tvars
    /\ IF store.kind = "corrupt"
       THEN /\ alive' = FALSE
            /\ models' = <<>>
            /\ known' = {}
            /\ last' = Call("__init__", "", "JSONDecodeError", NoneStr, NoneStr)
       ELSE /\ alive' = TRUE
            /\ models' = _load_cache_metadata(store)
            /\ known' = NameSet(_load_cache_metadata(store))
            /\ last' = Call("__init__", "", "init", NoneStr, NoneStr)

ModelCache_init(m) ==
    /\ alive' = TRUE
    /\ max_models' = m
    /\ models' = _load_cache_metadata(store)
    /\ pool' = EmptyPool
    /\ known' = NameSet(_load_cache_metadata(store))
    /\ last' = Call("__init__", "", "init", NoneStr, NoneStr)
    /\ hist' = Off
    /\ UNCHANGED <<now, store, faults>>
    /\ UNCHANGED tvars

\* register_model that makes room before it looks whether the name is known
register_model_evicts_first(model_path, name_arg, exists, wr) ==
    /\ alive
    /\ LET model_name == IF name_arg # NoName THEN name_arg ELSE basename(model_path)
           ev == _evict_least_used_model(models)
           kept == IF Len(models) >= max_models THEN ev.models ELSE models
           gone == IF Len(models) >= max_models THEN ev.evicted ELSE NoneStr
       IN  IF ~exists
           THEN /\ wr = "ok"
                /\ NoWrite(models, pool,
                           Call("register_model", model_name, "FileNotFoundError", NoneStr, NoneStr),
                           <<"register_model_missing", model_name>>)
           ELSE IF Len(models) >= max_models /\ ev.raised
           THEN /\ wr = "ok"
                /\ NoWrite(models, pool,
                           Call("register_model", model_name, "AttributeError", NoneStr, NoneStr),
                           <<"register_model", model_name>>)
           ELSE IF model_name \in NameSet(models)
           THEN /\ wr = "ok"
                /\ NoWrite(kept, pool,
                           Call("register_model", model_name, "already", model_name, gone),
                           <<"register_model", model_name>>)
           ELSE IF ~Readable(model_path)
           THEN /\ wr = "ok"
                /\ NoWrite(kept, pool,
                           Call("register_model", model_name, "PermissionError", NoneStr, gone),
                           <<"register_model_unreadable", model_name>>)
           ELSE Commit(Append(kept, ModelMetadata(model_path, model_name, exists)), pool, wr,
                       Call("register_model", model_name, "registered", model_name, gone),
                       <<"register_model", model_name>>)

\* register_model that looks for the file only when it builds the metadata,
\* after the capacity check has run
register_model_checks_late(model_path, name_arg, exists, wr) ==
    /\ alive
    /\ LET model_name == IF name_arg # NoName THEN name_arg ELSE basename(model_path)
           ev == _evict_least_used_model(models)
           kept == IF Len(models) >= max_models THEN ev.models ELSE models
           gone == IF Len(models) >= max_models THEN ev.evicted ELSE NoneStr
       IN  IF model_name \in NameSet(models)
           THEN /\ wr = "ok"
                /\ NoWrite(models, pool,
                           Call("register_model", model_name, "already", model_name, NoneStr),
                           <<"register_model", model_name>>)
           ELSE IF Len(models) >= max_models /\ ev.raised
           THEN /\ wr = "ok"
                /\ NoWrite(models, pool,
                           Call("register_model", model_name, "AttributeError", NoneStr, NoneStr),
                           <<"register_model", model_name>>)
           ELSE IF ~exists
           THEN /\ wr = "ok"
                /\ NoWrite(kept, pool,
                           Call("register_model", model_name, "FileNotFoundError", NoneStr, gone),
                           <<"register_model_missing", model_name>>)
           ELSE IF ~Readable(model_path)
           THEN /\ wr = "ok"
                /\ NoWrite(kept, pool,
                           Call("register_model", model_name, "PermissionError", NoneStr, gone),
                           <<"register_model_unreadable", model_name>>)
           ELSE Commit(Append(kept, ModelMetadata(model_path, model_name, exists)), pool, wr,
                       Call("register_model", model_name, "registered", model_name, gone),
                       <<"register_model", model_name>>)

register_model(model_path, name_arg, exists, wr) ==
    /\ alive
    /\ LET model_name == IF name_arg # NoName THEN name_arg ELSE basename(model_path)
           ev == _evict_least_used_model(models)
       IN  IF ~exists
           THEN /\ wr = "ok"
                /\ NoWrite(models, pool,
                           Call("register_model", model_name, "FileNotFoundError", NoneStr, NoneStr),
                           <<"register_model_missing", model_name>>)
           ELSE IF model_name \in NameSet(models)
           THEN /\ wr = "ok"
                /\ NoWrite(models, pool,
                           Call("register_model", model_name, "already", model_name, NoneStr),
                           <<"register_model", model_name>>)
           ELSE IF Len(models) >= max_models /\ ev.raised
           THEN /\ wr = "ok"
                /\ NoWrite(models, pool,
                           Call("register_model", model_name, "AttributeError", NoneStr, NoneStr),
                           <<"register_model", model_name>>)
           ELSE LET kept == IF Len(models) >= max_models THEN ev.models ELSE models
                    gone == IF Len(models) >= max_models THEN ev.evicted ELSE NoneStr
                IN  IF ~Readable(model_path)
                    THEN /\ wr = "ok"
                         /\ NoWrite(kept, pool,
                                    Call("register_model", model_name, "PermissionError", NoneStr, gone),
                                    <<"register_model_unreadable", model_name>>)
                    ELSE Commit(Append(kept, ModelMetadata(model_path, model_name, exists)), pool, wr,
                                Call("register_model", model_name, "registered", model_name, gone),
                                <<"register_model", model_name>>)

\* the catalogue after the body of update_model_usage
RecordUse(ms, model_name) ==
    [ ms EXCEPT ![IndexOf(ms, model_name)] =
        [ @ EXCEPT !.last_used_at = datetime_now, !.use_count = @ + 1 ] ]

\* mark_model_loaded that counts the load as a use
MarkLoadedCountsUse(ms, model_name) ==
    [ ms EXCEPT ![IndexOf(ms, model_name)] =
        [ @ EXCEPT !.is_loaded = TRUE, !.loaded_at = datetime_now,
                   !.last_used_at = datetime_now ] ]

\* the catalogue after the body of mark_model_loaded
MarkLoaded(ms, model_name) ==
    [ ms EXCEPT ![IndexOf(ms, model_name)] =
        [ @ EXCEPT !.is_loaded = TRUE, !.loaded_at = datetime_now ] ]

\* both mutators act only on an entry that is a ModelMetadata object
IsObjEntry(ms, model_name) ==
    /\ model_name \in NameSet(ms)
    /\ Entry(ms, model_name).isobj

UsageCall(model_name, pl, wr, call, ev) ==
    IF IsObjEntry(models, model_name)
    THEN Commit(RecordUse(models, model_name), pl, wr, call, ev)
    ELSE /\ wr = "ok"
         /\ NoWrite(models, pl, call, ev)

LoadedCall(model_name, pl, wr, call, ev) ==
    IF IsObjEntry(models, model_name)
    THEN Commit(MarkLoaded(models, model_name), pl, wr, call, ev)
    ELSE /\ wr = "ok"
         /\ NoWrite(models, pl, call, ev)

update_model_usage(model_name, wr) ==
    /\ alive
    /\ UsageCall(model_name, pool, wr,
                 Call("update_model_usage", model_name, "returned", NoneStr, NoneStr),
                 <<"update_model_usage", model_name>>)

mark_model_loaded(model_name, wr) ==
    /\ alive
    /\ LoadedCall(model_name, pool, wr,
                  Call("mark_model_loaded", model_name, "returned", NoneStr, NoneStr),
                  <<"mark_model_loaded", model_name>>)

lookup_model_metadata(model_name) ==
    /\ alive
    /\ NoWrite(models, pool,
               Call("get_model_metadata", model_name,
                    "returned",
                    NoneStr, NoneStr),
               <<"get_model_metadata", model_name>>)

lookup_list_models ==
    /\ alive
    /\ NoWrite(models, pool,
               Call("list_models", "", "returned", NoneStr, NoneStr),
               <<"list_models", "">>)

----------------------------------------------------------------------------
lookup_cache_stats ==
    /\ alive
    /\ NoWrite(models, pool,
               Call("get_cache_stats", "", "returned", NoneStr, NoneStr),
               <<"get_cache_stats", "">>)

----------------------------------------------------------------------------
(* ModelPool *)

PoolSet(pl, model_name, h) ==
    [ n \in (DOMAIN pl) \cup {model_name} |-> IF n = model_name THEN h ELSE pl[n] ]

PoolDel(pl, model_name) ==
    [ n \in (DOMAIN pl) \ {model_name} |-> pl[n] ]

\* get_model that serves only names the catalogue still holds
get_model_registered_only(model_name, wr) ==
    /\ alive
    /\ IF model_name \in DOMAIN pool /\ model_name \in NameSet(models)
       THEN UsageCall(model_name, pool, wr,
                      Call("get_model", model_name, "hit", pool[model_name], NoneStr),
                      <<"get_model", model_name>>)
       ELSE /\ wr = "ok"
            /\ NoWrite(models, pool,
                       Call("get_model", model_name, "miss", NoneStr, NoneStr),
                       <<"get_model", model_name>>)

get_model(model_name, wr) ==
    /\ alive
    /\ IF model_name \in DOMAIN pool
       THEN UsageCall(model_name, pool, wr,
                      Call("get_model", model_name, "hit", pool[model_name], NoneStr),
                      <<"get_model", model_name>>)
       ELSE /\ wr = "ok"
            /\ NoWrite(models, pool,
                       Call("get_model", model_name, "miss", NoneStr, NoneStr),
                       <<"get_model", model_name>>)

set_model(model_name, model_instance, wr) ==
    /\ alive
    /\ LoadedCall(model_name, PoolSet(pool, model_name, model_instance), wr,
                  Call("set_model", model_name, "returned", NoneStr, NoneStr),
                  <<"set_model", model_name>>)

\* remove_model that also clears the loaded flag of the catalogue entry
remove_model_marks_unloaded(model_name) ==
    /\ alive
    /\ NoWrite(IF IsObjEntry(models, model_name)
               THEN [ models EXCEPT ![IndexOf(models, model_name)] =
                        [ @ EXCEPT !.is_loaded = FALSE ] ]
               ELSE models,
               IF model_name \in DOMAIN pool THEN PoolDel(pool, model_name) ELSE pool,
               Call("remove_model", model_name, "returned", NoneStr, NoneStr),
               <<"remove_model", model_name>>)

remove_model(model_name) ==
    /\ alive
    /\ NoWrite(models,
               IF model_name \in DOMAIN pool THEN PoolDel(pool, model_name) ELSE pool,
               Call("remove_model", model_name, "returned", NoneStr, NoneStr),
               <<"remove_model", model_name>>)

clear ==
    /\ alive
    /\ NoWrite(models, EmptyPool,
               Call("clear", "", "returned", NoneStr, NoneStr),
               <<"clear", "">>)

----------------------------------------------------------------------------
(* Environment *)

\* use_count of the entry for n, if it is a ModelMetadata object, is below k
UseBelow(n, k) ==
    IsObjEntry(models, n) => Entry(models, n).use_count < k

Tick ==
    /\ now < MaxTime
    /\ now' = now + 1
    /\ UNCHANGED <<alive, max_models, models, pool, store, last, faults, known, hist>>
    /\ UNCHANGED tvars

\* One process after another on an unreliable store: every public operation,
\* restarts, failed and interrupted writes, over two model files.
Next ==
    \/ \E m \in 0..MaxModels : ModelCache_init(m)
    \/ \E p \in StorePaths, explicit \in BOOLEAN, exists \in BOOLEAN, wr \in WriteOutcomes :
          register_model(p, IF explicit THEN basename(p) ELSE NoName, exists, wr)
    \/ register_model(UnreadablePath, NoName, TRUE, "ok")
    \/ \E n \in StoreNames, wr \in WriteOutcomes :
          UseBelow(n, MaxUse) /\ update_model_usage(n, wr)
    \/ \E n \in StoreNames, wr \in WriteOutcomes : mark_model_loaded(n, wr)
    \/ \E n \in StoreNames : lookup_model_metadata(n)
    \/ lookup_list_models
    \/ lookup_cache_stats
    \/ \E n \in StoreNames, wr \in WriteOutcomes :
          UseBelow(n, MaxUse) /\ get_model(n, wr)
    \/ \E n \in StoreNames, h \in Handles, wr \in WriteOutcomes : set_model(n, h, wr)
    \/ \E n \in StoreNames : remove_model(n)
    \/ clear
    \/ Tick

Spec == Init /\ [][Next]_vars

\* One process on a reliable store, registering three model files and using
\* them through the pool: the environment of the eviction policy.
InitLRU ==
    /\ Init
    /\ max_models \in LRUCapacities

NextLRU ==
    \/ \E p \in Paths, explicit \in BOOLEAN, exists \in BOOLEAN :
          register_model(p, IF explicit THEN basename(p) ELSE NoName, exists, "ok")
    \/ \E n \in Names : UseBelow(n, MaxUseLRU) /\ get_model(n, "ok")
    \/ \E n \in Names, h \in Handles : set_model(n, h, "ok")
    \/ \E n \in Names : remove_model(n)
    \/ clear
    \/ Tick

SpecLRU == InitLRU /\ [][NextLRU]_vars

----------------------------------------------------------------------------
(* Threads of one process calling the cache and the pool *)

CacheOps == {"register_model", "update_model_usage", "mark_model_loaded",
             "get_model_metadata", "list_models", "get_cache_stats"}
PoolOps == {"get_model", "set_model", "remove_model", "clear"}

\* an RLock: free, or held by one thread that entered it count times
CanAcquire(lock, t) == lock.owner \in {NoThread, t}

Acquire(lock, t) == [owner |-> t, count |-> lock.count + 1]

Release(lock) ==
    IF lock.count = 1 THEN FreeLock ELSE [lock EXCEPT !.count = @ - 1]

\* the thread is back from its call, which ended with res
Finished(r, res) ==
    [pc |-> "idle", op |-> "", arg |-> "", res |-> res, left |-> r.left, val |-> None]

\* the body of register_model on catalogue ms with capacity cap
RegisterEffect(ms, cap, model_path) ==
    IF model_path = MissingPath
    THEN [models |-> ms, res |-> "FileNotFoundError"]
    ELSE LET model_name == basename(model_path)
             ev == _evict_least_used_model(ms)
         IN  IF model_name \in NameSet(ms)
             THEN [models |-> ms, res |-> "already"]
             ELSE IF Len(ms) >= cap /\ ev.raised
             THEN [models |-> ms, res |-> "AttributeError"]
             ELSE IF ~Readable(model_path)
             THEN [models |-> IF Len(ms) >= cap THEN ev.models ELSE ms,
                   res |-> "PermissionError"]
             ELSE [models |-> Append(IF Len(ms) >= cap THEN ev.models ELSE ms,
                                     ModelMetadata(model_path, model_name, TRUE)),
                   res |-> "registered"]

\* the body of update_model_usage
UsageEffect(ms, model_name) ==
    IF IsObjEntry(ms, model_name) THEN RecordUse(ms, model_name) ELSE ms

\* the body of mark_model_loaded
LoadedEffect(ms, model_name) ==
    IF IsObjEntry(ms, model_name) THEN MarkLoaded(ms, model_name) ELSE ms

\* what a thread does to the catalogue while it holds the lock of the cache:
\* the body of the method it called, or of the method the pool calls for it
CacheEffect(ms, op, arg) ==
    CASE op = "register_model" -> RegisterEffect(ms, max_models, arg)
      [] op \in {"update_model_usage", "get_model"} ->
            [models |-> UsageEffect(ms, arg), res |-> "returned"]
      [] op \in {"mark_model_loaded", "set_model"} ->
            [models |-> LoadedEffect(ms, arg), res |-> "returned"]
      [] OTHER -> [models |-> ms, res |-> "returned"]

\* the call reaches _save_cache_metadata
Writes(ms, op, arg) ==
    \/ op = "register_model" /\ CacheEffect(ms, op, arg).res = "registered"
    \/ op \in {"update_model_usage", "get_model", "mark_model_loaded", "set_model"}
          /\ IsObjEntry(ms, arg)

\* one whole call run alone on catalogue and pool st
SeqApply(st, op, arg, h) ==
    CASE op \in CacheOps ->
            [models |-> CacheEffect(st.models, op, arg).models, pool |-> st.pool]
      [] op = "get_model" ->
            IF arg \in DOMAIN st.pool
            THEN [models |-> UsageEffect(st.models, arg), pool |-> st.pool]
            ELSE st
      [] op = "set_model" ->
            [models |-> LoadedEffect(st.models, arg), pool |-> PoolSet(st.pool, arg, h)]
      [] op = "remove_model" ->
            [models |-> st.models,
             pool |-> IF arg \in DOMAIN st.pool THEN PoolDel(st.pool, arg) ELSE st.pool]
      [] op = "clear" -> [models |-> st.models, pool |-> EmptyPool]

\* thread t calls a public method
Invoke(t, op, arg, h) ==
    /\ thr[t].pc = "idle"
    /\ thr[t].left > 0
    /\ thr' = [thr EXCEPT ![t] =
                 [pc |-> IF op \in PoolOps THEN "pool_wait" ELSE "cache_wait",
                  op |-> op, arg |-> arg, res |-> "", left |-> @.left - 1, val |-> h]]
    /\ UNCHANGED <<alive, now, max_models, models, pool, store, last, faults, known, hist>>
    /\ UNCHANGED <<cache_lock, pool_lock, seq, _model_cache, _model_pool, built>>

\* with self.lock of ModelCache
AcquireCache(t) ==
    /\ thr[t].pc = "cache_wait"
    /\ CanAcquire(cache_lock, t)
    /\ cache_lock' = Acquire(cache_lock, t)
    /\ thr' = [thr EXCEPT ![t].pc = "cache_in"]
    /\ UNCHANGED <<alive, now, max_models, models, pool, store, last, faults, known, hist>>
    /\ UNCHANGED <<pool_lock, seq, _model_cache, _model_pool, built>>

\* a method of ModelCache that raises while the lock is taken by hand, with no
\* with statement to release it
CacheBody_raise_keeps_lock(t) ==
    /\ thr[t].pc = "cache_in"
    /\ LET r == thr[t]
           eff == CacheEffect(models, r.op, r.arg)
       IN  /\ models' = eff.models
           /\ store' = IF Writes(models, r.op, r.arg)
                       THEN _save_cache_metadata(eff.models, "ok") ELSE store
           /\ cache_lock' = IF eff.res \in {"FileNotFoundError", "AttributeError"}
                            THEN cache_lock ELSE Release(cache_lock)
           /\ seq' = SeqApply(seq, r.op, r.arg, r.val)
           /\ thr' = [thr EXCEPT ![t] =
                        IF r.op \in PoolOps THEN [r EXCEPT !.pc = "pool_out"]
                        ELSE Finished(r, eff.res)]
    /\ UNCHANGED <<alive, now, max_models, pool, last, faults, known, hist>>
    /\ UNCHANGED <<pool_lock, _model_cache, _model_pool, built>>

\* the body of a method of ModelCache, run holding its lock, and the end of
\* the with block: to the caller, or back into the method of the pool
CacheBody(t) ==
    /\ thr[t].pc = "cache_in"
    /\ LET r == thr[t]
           eff == CacheEffect(models, r.op, r.arg)
       IN  /\ models' = eff.models
           /\ store' = IF Writes(models, r.op, r.arg)
                       THEN _save_cache_metadata(eff.models, "ok") ELSE store
           /\ cache_lock' = Release(cache_lock)
           /\ seq' = SeqApply(seq, r.op, r.arg, r.val)
           /\ thr' = [thr EXCEPT ![t] =
                        IF r.op \in PoolOps THEN [r EXCEPT !.pc = "pool_out"]
                        ELSE Finished(r, eff.res)]
    /\ UNCHANGED <<alive, now, max_models, pool, last, faults, known, hist>>
    /\ UNCHANGED <<pool_lock, _model_cache, _model_pool, built>>

\* with self.lock of ModelPool
AcquirePool(t) ==
    /\ thr[t].pc = "pool_wait"
    /\ CanAcquire(pool_lock, t)
    /\ pool_lock' = Acquire(pool_lock, t)
    /\ thr' = [thr EXCEPT ![t].pc = "pool_in"]
    /\ UNCHANGED <<alive, now, max_models, models, pool, store, last, faults, known, hist>>
    /\ UNCHANGED <<cache_lock, seq, _model_cache, _model_pool, built>>

\* the part of a method of ModelPool before it calls the cache; remove_model,
\* clear and a get_model that misses end here
PoolBody(t) ==
    /\ thr[t].pc = "pool_in"
    /\ LET r == thr[t]
           calls_cache == \/ r.op = "set_model"
                          \/ r.op = "get_model" /\ r.arg \in DOMAIN pool
       IN  /\ pool' = CASE r.op = "set_model" -> PoolSet(pool, r.arg, r.val)
                        [] r.op = "remove_model" /\ r.arg \in DOMAIN pool -> PoolDel(pool, r.arg)
                        [] r.op = "clear" -> EmptyPool
                        [] OTHER -> pool
           /\ IF calls_cache
              THEN /\ thr' = [thr EXCEPT ![t].pc = "cache_wait"]
                   /\ UNCHANGED <<pool_lock, seq>>
              ELSE /\ thr' = [thr EXCEPT ![t] =
                                Finished(r, IF r.op = "get_model" THEN "miss" ELSE "returned")]
                   /\ pool_lock' = Release(pool_lock)
                   /\ seq' = SeqApply(seq, r.op, r.arg, r.val)
    /\ UNCHANGED <<alive, now, max_models, models, store, last, faults, known, hist>>
    /\ UNCHANGED <<cache_lock, _model_cache, _model_pool, built>>

\* back from the cache: get_model returns the instance, set_model returns
PoolReturn(t) ==
    /\ thr[t].pc = "pool_out"
    /\ pool_lock' = Release(pool_lock)
    /\ thr' = [thr EXCEPT ![t] =
                 Finished(thr[t], IF thr[t].op = "get_model" THEN "hit" ELSE "returned")]
    /\ UNCHANGED <<alive, now, max_models, models, pool, store, last, faults, known, hist>>
    /\ UNCHANGED <<cache_lock, seq, _model_cache, _model_pool, built>>

\* a thread inside a call takes its next step
Run(t) ==
    \/ AcquireCache(t)
    \/ CacheBody(t)
    \/ AcquirePool(t)
    \/ PoolBody(t)
    \/ PoolReturn(t)

\* a process that starts on an empty cache directory, or on a store that
\* holds model A, and whose threads then make k calls each
ProcessWithThreads(k) ==
    /\ alive = TRUE
    /\ now = 1
    /\ max_models \in LRUCapacities
    /\ store \in {AbsentStore,
                  _save_cache_metadata(<<ModelMetadata("/models/A", "A", TRUE)>>, "ok")}
    /\ models = _load_cache_metadata(store)
    /\ pool = EmptyPool
    /\ last = Call("__init__", "", "init", NoneStr, NoneStr)
    /\ faults = 0
    /\ known = NameSet(models)
    /\ hist = Off
    /\ ThreadsStart(k)
    /\ seq = [models |-> models, pool |-> pool]

InitThreads == ProcessWithThreads(MaxCalls)

NextThreads ==
    \E t \in Threads :
        \/ \E p \in StorePaths \cup {MissingPath} : Invoke(t, "register_model", p, None)
        \/ \E n \in StoreNames : Invoke(t, "update_model_usage", n, None)
        \/ \E n \in StoreNames : Invoke(t, "mark_model_loaded", n, None)
        \/ \E n \in StoreNames : Invoke(t, "get_model_metadata", n, None)
        \/ Invoke(t, "list_models", "", None)
        \/ Invoke(t, "get_cache_stats", "", None)
        \/ \E n \in StoreNames : Invoke(t, "get_model", n, None)
        \/ \E n \in StoreNames, h \in Handles : Invoke(t, "set_model", n, h)
        \/ \E n \in StoreNames : Invoke(t, "remove_model", n, None)
        \/ Invoke(t, "clear", "", None)
        \/ AcquireCache(t)
        \/ CacheBody(t)
        \/ AcquirePool(t)
        \/ PoolBody(t)
        \/ PoolReturn(t)

SpecThreads == InitThreads /\ [][NextThreads]_vars

\* the scheduler lets every thread that can take a step take one; which calls
\* a thread makes, and whether it makes any, is up to the program
InitThreadsFair == ProcessWithThreads(MaxCallsFair)

SpecThreadsFair ==
    InitThreadsFair /\ [][NextThreads]_vars /\ \A t \in Threads : WF_vars(Run(t))

----------------------------------------------------------------------------
(* The accessors get_model_cache and get_model_pool *)

\* the thread is back from an accessor
Returned(r) ==
    [pc |-> "idle", op |-> "", arg |-> "", res |-> "returned", left |-> r.left, val |-> None]

\* the accessors touch neither a cache nor a pool nor a lock
AccessorFrame ==
    /\ UNCHANGED <<alive, now, max_models, models, pool, store, last, faults, known, hist>>
    /\ UNCHANGED <<cache_lock, pool_lock, seq>>

\* thread t calls get_model_cache or get_model_pool
CallAccessor(t, f) ==
    /\ thr[t].pc = "idle"
    /\ thr[t].left > 0
    /\ thr' = [thr EXCEPT ![t] =
                 [pc |-> IF f = "get_model_cache" THEN "cache_test" ELSE "pool_test",
                  op |-> f, arg |-> "", res |-> "", left |-> @.left - 1, val |-> None]]
    /\ UNCHANGED <<_model_cache, _model_pool, built>>
    /\ AccessorFrame

\* if _model_cache is None
CacheTest(t) ==
    /\ thr[t].pc = "cache_test"
    /\ thr' = [thr EXCEPT ![t].pc = IF _model_cache = None THEN "cache_new" ELSE "cache_ret"]
    /\ UNCHANGED <<_model_cache, _model_pool, built>>
    /\ AccessorFrame

\* _model_cache = ModelCache(max_models=3)
CacheNew(t) ==
    /\ thr[t].pc = "cache_new"
    /\ _model_cache' = [id |-> built.caches + 1, max_models |-> DefaultMaxModels]
    /\ built' = [built EXCEPT !.caches = @ + 1]
    /\ thr' = [thr EXCEPT ![t].pc = "cache_ret"]
    /\ UNCHANGED _model_pool
    /\ AccessorFrame

\* return _model_cache: to the caller, or into get_model_pool
CacheRet(t) ==
    /\ thr[t].pc = "cache_ret"
    /\ IF thr[t].op = "get_model_cache"
       THEN /\ thr' = [thr EXCEPT ![t] = Returned(thr[t])]
            /\ built' = [built EXCEPT !.got_caches = @ \cup {_model_cache}]
       ELSE /\ thr' = [thr EXCEPT ![t].pc = "pool_new", ![t].val = _model_cache]
            /\ UNCHANGED built
    /\ UNCHANGED <<_model_cache, _model_pool>>
    /\ AccessorFrame

\* if _model_pool is None: ... get_model_cache()
PoolTest(t) ==
    /\ thr[t].pc = "pool_test"
    /\ thr' = [thr EXCEPT ![t].pc = IF _model_pool = None THEN "cache_test" ELSE "pool_ret"]
    /\ UNCHANGED <<_model_cache, _model_pool, built>>
    /\ AccessorFrame

\* _model_pool = ModelPool(<the cache get_model_cache returned>)
PoolNew(t) ==
    /\ thr[t].pc = "pool_new"
    /\ _model_pool' = [id |-> built.pools + 1, cache |-> thr[t].val]
    /\ built' = [built EXCEPT !.pools = @ + 1]
    /\ thr' = [thr EXCEPT ![t].pc = "pool_ret", ![t].val = None]
    /\ UNCHANGED _model_cache
    /\ AccessorFrame

\* return _model_pool
PoolRet(t) ==
    /\ thr[t].pc = "pool_ret"
    /\ thr' = [thr EXCEPT ![t] = Returned(thr[t])]
    /\ built' = [built EXCEPT !.got_pools = @ \cup {_model_pool}]
    /\ UNCHANGED <<_model_cache, _model_pool>>
    /\ AccessorFrame

\* a process in which nothing has called an accessor yet
InitAccessors ==
    /\ alive = TRUE
    /\ now = 1
    /\ max_models = DefaultMaxModels
    /\ models = <<>>
    /\ pool = EmptyPool
    /\ store = AbsentStore
    /\ last = Call("__init__", "", "init", NoneStr, NoneStr)
    /\ faults = 0
    /\ known = {}
    /\ hist = Off
    /\ ThreadsStart(MaxCalls)
    /\ seq = [models |-> <<>>, pool |-> EmptyPool]

NextAccessors ==
    \E t \in Threads :
        \/ \E f \in {"get_model_cache", "get_model_pool"} : CallAccessor(t, f)
        \/ CacheTest(t)
        \/ CacheNew(t)
        \/ CacheRet(t)
        \/ PoolTest(t)
        \/ PoolNew(t)
        \/ PoolRet(t)

SpecAccessors == InitAccessors /\ [][NextAccessors]_vars

----------------------------------------------------------------------------
(* Steps the properties speak about *)

\* a register_model call for path p whose file exists and whose write, if any,
\* ends normally or fails without ending the process
RegisterCall(p) ==
    \E explicit \in BOOLEAN, wr \in WriteOutcomes \ {"crash"} :
        register_model(p, IF explicit THEN basename(p) ELSE NoName, TRUE, wr)

RegisterMissing(p) ==
    \E explicit \in BOOLEAN :
        register_model(p, IF explicit THEN basename(p) ELSE NoName, FALSE, "ok")

GetCall(n) == \E wr \in WriteOutcomes \ {"crash"} : get_model(n, wr)

LoadedStep(n) ==
    \E wr \in WriteOutcomes \ {"crash"} :
        \/ mark_model_loaded(n, wr)
        \/ \E h \in Handles : set_model(n, h, wr)

\* the (useCount, lastUsedAt) pair of the eviction policy, never-used first
PairLeq(a, b) ==
    LET stamp(x) == IF x.last_used_at = None THEN 0 ELSE x.last_used_at[2]
    IN  \/ a.use_count < b.use_count
        \/ a.use_count = b.use_count /\ stamp(a) <= stamp(b)

\* what get_model_metadata answers for every registered name
View(ms) == [ n \in NameSet(ms) |-> get_model_metadata(ms, n) ]

Range(f) == { f[i] : i \in DOMAIN f }

----------------------------------------------------------------------------
(* Properties *)

\* C1: after any public operation returns, the catalogue holds at most
\* max_models entries, whatever max_models is and whether or not the catalogue
\* was reloaded from the store.
C1_CapacityBound ==
    alive => Len(models) <= max_models

\* C2 (general part): registering a new name into a catalogue that holds
\* exactly max_models entries leaves exactly max_models entries, and the one
\* removed has the smallest (useCount, lastUsedAt) pair of the entries that were
\* there, a never-used entry counting as the earliest.
EvictsSmallestPair ==
    \A p \in Paths :
        ( /\ basename(p) \notin NameSet(models)
          /\ Len(models) = max_models
          /\ last'.op = "register_model"
          /\ RegisterCall(p) )
        => /\ Len(models') = max_models
           /\ basename(p) \in NameSet(models')
           /\ Cardinality(NameSet(models) \ NameSet(models')) = 1
           /\ \A g \in NameSet(models) \ NameSet(models') :
                /\ last'.evicted = g
                /\ \A i \in 1..Len(models) : PairLeq(Entry(models, g), models[i])

\* C2 as stated: the eviction rule above, and with capacity 2, after register
\* A, register B, get(A) three times and get(B) once, registering C evicts B
\* and leaves A and C.
C2_ScenarioAsStated ==
    [][ /\ EvictsSmallestPair
        /\ (hist' = Scenario /\ max_models' = 2) =>
              NameSet(models') = {"A", "C"} ]_vars

\* C2 amended: the eviction rule above, and with capacity 2, after register A,
\* register B, put(A), put(B), get(A) three times and get(B) once, registering
\* C evicts B and leaves A and C.
C2_ScenarioWithPut ==
    [][ /\ EvictsSmallestPair
        /\ (hist' = ScenarioPut /\ max_models' = 2) =>
              /\ NameSet(models') = {"A", "C"}
              /\ last'.evicted = "B" ]_vars

C2_Witness ==
    /\ hist = ScenarioPut
    /\ max_models = 2
    /\ last.res = "registered"
    /\ last.evicted = "B"

\* C3: a register_model call for a new name whose file exists, made while the
\* catalogue is at capacity, never raises: one entry is evicted and the new
\* name is registered, also when entries were reloaded from the store.
C3_EvictionNeverFails ==
    [][ \A p \in StorePaths :
          ( /\ RegisterCall(p)
            /\ basename(p) \notin NameSet(models)
            /\ models # <<>>
            /\ Len(models) = max_models )
          => /\ last'.res = "registered"
             /\ basename(p) \in NameSet(models')
             /\ Len(models') = Len(models) ]_vars

\* C4: get_model(name) adds exactly one to the useCount of the entry for name
\* when the pool holds an instance for name, and leaves catalogue and store
\* unchanged when it does not.
C4_GetCountsUse ==
    [][ \A n \in StoreNames :
          GetCall(n) =>
            IF n \in DOMAIN pool
            THEN n \in NameSet(models) =>
                    /\ n \in NameSet(models')
                    /\ Entry(models', n).use_count = Entry(models, n).use_count + 1
            ELSE /\ models' = models
                 /\ store' = store ]_vars

\* C5: mark_model_loaded and set_model set loadedAt on the first call for a
\* registered name and leave it unchanged on every later call.
C5_LoadedAtStable ==
    [][ \A n \in StoreNames :
          (LoadedStep(n) /\ n \in NameSet(models)) =>
            /\ n \in NameSet(models')
            /\ Entry(models', n).loaded_at # None
            /\ Entry(models, n).loaded_at # None =>
                  Entry(models', n).loaded_at = Entry(models, n).loaded_at ]_vars

\* C6: re-registering a name that is in the catalogue, with a path that exists,
\* returns that name, leaves every entry, the store and the pool unchanged and
\* evicts nothing, also at full capacity.
C6_ReRegisterNoOp ==
    [][ \A p \in StorePaths :
          (RegisterCall(p) /\ basename(p) \in NameSet(models)) =>
            /\ last'.res = "already"
            /\ last'.ret = basename(p)
            /\ last'.evicted = NoneStr
            /\ models' = models
            /\ store' = store
            /\ pool' = pool ]_vars

C6_Witness ==
    /\ last.op = "register_model"
    /\ last.res = "already"
    /\ last.ret \in NameSet(models)
    /\ max_models >= 1
    /\ Len(models) = max_models

\* C7: a crash in the middle of a store write loses at most the update being
\* written: a registry constructed afterwards recovers every entry the store
\* held before that write began.
C7_CrashKeepsHistory ==
    [][ (alive /\ ~alive') =>
          Range(_load_cache_metadata(store)) \subseteq Range(_load_cache_metadata(store')) ]_vars

\* C8: after a mutating operation whose store write succeeds, the store holds
\* exactly the catalogue: the same names, and for every name the same fields.
WroteOk ==
    \/ \E p \in StorePaths : /\ RegisterCall(p)
                             /\ last'.res = "registered"
                             /\ faults' = faults
    \/ \E n \in StoreNames : /\ IsObjEntry(models, n)
                             /\ \/ update_model_usage(n, "ok")
                                \/ mark_model_loaded(n, "ok")
                                \/ get_model(n, "ok") /\ n \in DOMAIN pool
                                \/ \E h \in Handles : set_model(n, h, "ok")

C8_StoreHoldsCatalogue ==
    [][ WroteOk =>
          /\ store'.kind = "ok"
          /\ Len(store'.data) = Len(models')
          /\ NameSet(store'.data) = NameSet(models')
          /\ \A n \in NameSet(models') :
                Entry(store'.data, n) = get_model_metadata(models', n) ]_vars

C8_Witness ==
    /\ faults = 1
    /\ last.op = "register_model"
    /\ last.res = "registered"
    /\ last.evicted # NoneStr
    /\ store.kind = "ok"
    /\ store.data = SaveData(models)

\* C9: a ModelCache constructed on a store that holds the persisted catalogue
\* answers get_model_metadata and list_models with the same names and, per
\* name, the same hash, size, useCount, loaded flag and serialized timestamps.
C9_RoundTrip ==
    [][ ( /\ alive
          /\ \E m \in 0..MaxModels : ModelCache_init(m)
          /\ store = _save_cache_metadata(models, "ok") )
        => /\ View(models') = View(models)
           /\ Range(list_models(models')) = Range(list_models(models)) ]_vars

C9_Witness ==
    /\ last.op = "__init__"
    /\ \E i \in 1..Len(models) :
          /\ ~models[i].isobj
          /\ models[i].use_count > 0
          /\ models[i].last_used_at # None
          /\ models[i].loaded_at # None
          /\ models[i].is_loaded

\* C10: register_model with a path that does not exist raises the not-found
\* error and leaves the catalogue, the store and the pool unchanged, at any
\* catalogue size.
C10_MissingPath ==
    [][ \A p \in StorePaths :
          RegisterMissing(p) =>
            /\ last'.res = "FileNotFoundError"
            /\ last'.ret = NoneStr
            /\ models' = models
            /\ store' = store
            /\ pool' = pool ]_vars

C10_Witness ==
    /\ last.op = "register_model"
    /\ last.res = "FileNotFoundError"
    /\ max_models >= 1
    /\ Len(models) = max_models
    /\ store.kind = "ok"

\* C11: every name with an instance in the pool is in the catalogue or was in
\* the catalogue of this process at some earlier time.
C11_PoolNamesKnown ==
    alive => DOMAIN pool \subseteq known

\* C14: a failed write of the store is not raised to the caller and leaves
\* the in-memory change in place: the call returns as it would have with a
\* successful write.
WriteFails == {"open_failed", "dump_failed"}

C14_WriteFailureIsolated ==
    [][ \A wr \in WriteFails :
          /\ \A p \in StorePaths, explicit \in BOOLEAN :
                register_model(p, IF explicit THEN basename(p) ELSE NoName, TRUE, wr) =>
                  /\ alive'
                  /\ last'.res = "registered"
                  /\ last'.ret = basename(p)
                  /\ basename(p) \in NameSet(models')
                  /\ Entry(models', basename(p)).use_count = 0
          /\ \A n \in StoreNames :
                (update_model_usage(n, wr) \/ get_model(n, wr)) =>
                  /\ alive'
                  /\ last'.res \in {"returned", "hit"}
                  /\ n \in NameSet(models')
                  /\ Entry(models', n).use_count = Entry(models, n).use_count + 1
                  /\ Entry(models', n).last_used_at = datetime_now
          /\ \A n \in StoreNames :
                (mark_model_loaded(n, wr) \/ \E h \in Handles : set_model(n, h, wr)) =>
                  /\ alive'
                  /\ last'.res = "returned"
                  /\ n \in NameSet(models')
                  /\ Entry(models', n).is_loaded
                  /\ Entry(models', n).loaded_at = datetime_now ]_vars

C14_Witness ==
    /\ alive
    /\ faults = 1
    /\ last.op = "register_model"
    /\ last.res = "registered"
    /\ store.kind = "corrupt"
    /\ Len(models) = 1

\* C15: constructing a ModelCache on a store that cannot be read or parsed
\* completes, and the catalogue is empty.
C15_CorruptStoreTolerated ==
    [][ (store.kind = "corrupt" /\ \E m \in 0..MaxModels : ModelCache_init(m)) =>
          /\ alive'
          /\ last'.res = "init"
          /\ models' = <<>> ]_vars

C15_Witness ==
    /\ alive
    /\ last.op = "__init__"
    /\ last.res = "init"
    /\ store.kind = "corrupt"
    /\ models = <<>>

\* C16: get_cache_stats aggregates over all entries of the catalogue, also
\* after a reload: total_models counts the entries, loaded_models those whose
\* loaded flag is true, total_cache_size sums their file sizes, max_models is
\* the capacity.
TotalSize(ms) ==
    LET f[k \in 0..Len(ms)] == IF k = 0 THEN 0 ELSE f[k - 1] + ms[k].file_size
    IN  f[Len(ms)]

C16_StatsAggregateAll ==
    (alive /\ last.op = "get_cache_stats") =>
        /\ get_cache_stats(models).total_models = Len(models)
        /\ get_cache_stats(models).loaded_models =
              Cardinality({ i \in 1..Len(models) : models[i].is_loaded })
        /\ get_cache_stats(models).total_cache_size = TotalSize(models)
        /\ get_cache_stats(models).max_models = max_models

\* C18: an eviction inside register_model removes exactly one entry of the
\* catalogue and leaves the pool as it was; get_model still returns the
\* instance stored for a name the catalogue no longer holds.
C18_EvictionLeavesPool ==
    [][ /\ \A p \in Paths :
              (last'.op = "register_model" /\ last'.evicted # NoneStr /\ RegisterCall(p)) =>
                /\ pool' = pool
                /\ NameSet(models) \ NameSet(models') = {last'.evicted}
                /\ Len(models') = Len(models)
        /\ \A n \in Names :
              (n \in DOMAIN pool /\ n \notin NameSet(models)
                 /\ last'.op = "get_model" /\ GetCall(n)) =>
                /\ last'.res = "hit"
                /\ last'.ret = pool[n]
                /\ pool' = pool ]_vars

C18_Witness ==
    /\ last.op = "register_model"
    /\ last.res = "registered"
    /\ last.evicted \in DOMAIN pool
    /\ last.evicted \notin NameSet(models)

\* C19: remove_model and clear leave every entry of the catalogue, with all its
\* fields, and the store as they were.
C19_RemoveClearFrame ==
    [][ ((\E n \in StoreNames : remove_model(n)) \/ clear) =>
          /\ models' = models
          /\ store' = store ]_vars

C19_Witness ==
    /\ last.op \in {"remove_model", "clear"}
    /\ \E i \in 1..Len(models) :
          /\ models[i].isobj
          /\ models[i].is_loaded
          /\ models[i].model_name \notin DOMAIN pool

\* C20, frame part: within one process a newly registered entry starts with
\* useCount 0 and no lastUsedAt, and a step that changes useCount or lastUsedAt
\* of an entry that stays registered is a call of one of the operations ops,
\* which adds exactly one to useCount.
UsageChangesOnlyIn(ops) ==
    \A n \in StoreNames :
        (alive /\ alive' /\ last'.op # "__init__" /\ n \in NameSet(models')) =>
            IF n \in NameSet(models)
            THEN \/ /\ Entry(models', n).use_count = Entry(models, n).use_count
                    /\ Entry(models', n).last_used_at = Entry(models, n).last_used_at
                 \/ /\ last'.op \in ops
                    /\ Entry(models', n).use_count = Entry(models, n).use_count + 1
            ELSE /\ Entry(models', n).use_count = 0
                 /\ Entry(models', n).last_used_at = None

\* C20 as stated: useCount changes only by +1 through a usage record reached
\* from a pool hit.
C20_OnlyPoolHitsCount ==
    [][ UsageChangesOnlyIn({"get_model"}) ]_vars

\* C20 amended: useCount changes only by +1 through update_model_usage, called
\* directly or from a pool hit.
C20_OnlyUsageRecordsCount ==
    [][ UsageChangesOnlyIn({"get_model", "update_model_usage"}) ]_vars

C20_Witness ==
    /\ last.op = "update_model_usage"
    /\ pool = EmptyPool
    /\ Len(models) = 1
    /\ models[1].isobj
    /\ models[1].use_count = 1
    /\ models[1].loaded_at = None

\* no thread is inside a call
Quiescent == \A t \in Threads : thr[t].pc = "idle"

\* whenever all calls made so far are over, catalogue and pool are those of
\* the same calls run one after another, in the order in which they took the
\* lock of the cache (of the pool, for calls that never reach the cache)
FinalStateSequential ==
    Quiescent => (models = seq.models /\ pool = seq.pool)

\* thread t, inside get_model, runs the usage record of a pool hit on a name
\* the catalogue holds, the entry being one of the set ms
HitStep(t, ms) ==
    /\ CacheBody(t)
    /\ thr[t].op = "get_model"
    /\ thr[t].arg \in NameSet(models)
    /\ Entry(models, thr[t].arg) \in ms

\* every pool hit on an entry of ms adds exactly one to its useCount
HitsCounted(ms) ==
    \A t \in Threads :
        HitStep(t, ms) =>
            /\ thr[t].arg \in NameSet(models')
            /\ Entry(models', thr[t].arg).use_count = Entry(models, thr[t].arg).use_count + 1

\* C12: calls of concurrent threads are linearizable: the final catalogue and
\* pool equal those of a sequential order of the same calls, and k pool hits on
\* a registered name that is not evicted raise its useCount by exactly k.
C12_Linearizable ==
    /\ []FinalStateSequential
    /\ [][HitsCounted(Range(models))]_vars

\* the same, the count being asked only of the entries this process registered
LinearizableObjects ==
    /\ []FinalStateSequential
    /\ [][HitsCounted({ m \in Range(models) : m.isobj })]_vars

\* C13: whatever the interleaving of the first calls of get_model_cache and
\* get_model_pool, one ModelCache and one ModelPool are constructed, every
\* caller gets that instance, and the pool is bound to that cache.
C13_OneCacheOnePool ==
    /\ built.caches <= 1
    /\ built.pools <= 1
    /\ Cardinality(built.got_caches) <= 1
    /\ Cardinality(built.got_pools) <= 1
    /\ \A pl \in built.got_pools : pl.cache = _model_cache

\* a lock is held only by a thread inside the with block that took it
LocksHeldInsideCalls ==
    \A t \in Threads :
        /\ cache_lock.owner = t => thr[t].pc = "cache_in"
        /\ pool_lock.owner = t => thr[t].pc \in {"pool_in", "cache_wait", "cache_in", "pool_out"}
        /\ thr[t].pc = "idle" => (cache_lock.owner # t /\ pool_lock.owner # t)

\* while a thread is inside a call, some thread can take a step
NoDeadlock ==
    (\E t \in Threads : thr[t].pc # "idle") => (\E t \in Threads : ENABLED Run(t))

\* C17: no interleaving of calls deadlocks, a thread that returned or raised
\* holds no lock, and a thread waiting for the lock of the cache or of the
\* pool eventually acquires it.
C17_LocksReleasedAndLive ==
    /\ [](LocksHeldInsideCalls /\ NoDeadlock)
    /\ \A t \in Threads :
          /\ (thr[t].pc = "cache_wait") ~> (cache_lock.owner = t)
          /\ (thr[t].pc = "pool_wait") ~> (pool_lock.owner = t)

C17_Witness ==
    \E t \in Threads, u \in Threads :
        /\ t # u
        /\ thr[t].pc = "idle"
        /\ thr[t].res = "FileNotFoundError"
        /\ thr[u].pc = "cache_in"
        /\ pool_lock.owner = u

\* C22: whenever the pool holds an instance for a name the catalogue holds,
\* the loaded flag of that entry is true.
C22_PoolImpliesLoaded ==
    alive =>
        \A n \in DOMAIN pool :
            n \in NameSet(models) => Entry(models, n).is_loaded

\* entry a has never been used
NeverUsed(a) == a.use_count = 0 /\ a.last_used_at = None

\* C23: among the entries that tie on (useCount, lastUsedAt) eviction removes
\* the one registered earliest; a full catalogue of never-used entries loses
\* its entries in the order of their registration.
C23_TiesEvictEarliest ==
    [][ \A p \in Paths :
          ( /\ last'.op = "register_model"
            /\ last'.evicted # NoneStr
            /\ RegisterCall(p) )
          => /\ last'.evicted \in NameSet(models)
             /\ \A j \in 1..Len(models) :
                   ( /\ models[j].use_count = Entry(models, last'.evicted).use_count
                     /\ models[j].last_used_at = Entry(models, last'.evicted).last_used_at )
                   => IndexOf(models, last'.evicted) <= j
             /\ (\A j \in 1..Len(models) : NeverUsed(models[j]))
                   => last'.evicted = models[1].model_name ]_vars

\* a new name went into a catalogue of two entries that tied as never used:
\* the one that stayed has never been used, so the evicted one had not either
C23_Witness ==
    /\ max_models = 2
    /\ last.op = "register_model"
    /\ last.res = "registered"
    /\ last.evicted # NoneStr
    /\ Len(models) = 2
    /\ NeverUsed(models[1])

\* a register_model call, on any of the paths, that ends with an exception of
\* the set errs
RegisterRaises(errs) ==
    /\ \E p \in StorePaths \cup {UnreadablePath}, explicit \in BOOLEAN, exists \in BOOLEAN :
          register_model(p, IF explicit THEN basename(p) ELSE NoName, exists, "ok")
    /\ last'.res \in errs

\* C21: a register_model call that raises, for whatever reason and at whatever
\* step, leaves the catalogue with exactly the entries it had before the call.
C21_RaiseKeepsCatalogue ==
    [][ RegisterRaises({"FileNotFoundError", "AttributeError", "PermissionError"})
          => models' = models ]_vars

\* the same for the calls that raise before the capacity check or inside it
RaiseBeforeInsertKeepsCatalogue ==
    [][ RegisterRaises({"FileNotFoundError", "AttributeError"})
          => models' = models ]_vars

====
